---- MODULE Spec2Model ----
(***************************************************************************)
(* Model of the websvr ThreadPool (src/src/lib.rs): a fixed set of worker  *)
(* threads sharing the receiving end of one mpsc channel behind a Mutex,   *)
(* a pool that owns the sending end, and a Drop that closes the channel    *)
(* and joins the workers.                                                  *)
(*                                                                         *)
(* Every step that another thread can observe (lock, recv, send, the drop  *)
(* of the Sender, thread exit, join) is an action of its own; a step that  *)
(* touches only the thread's own locals (the match, the println!s, the     *)
(* call of job()) is folded into the observable step before it.            *)
(***************************************************************************)
EXTENDS Integers, Sequences, FiniteSets, TLC

\* ---- bounds of the model ------------------------------------------------
MaxN == 2          \* largest pool size tried (n ranges over 0..MaxN)
MaxJobs == 3       \* number of execute calls made in one run
NumCallers == 2    \* caller threads sharing &ThreadPool

\* A job has no identity in the program; the model numbers the jobs 1, 2, ...
\* in the order in which their send takes effect on the channel.
Jobs == 1..MaxJobs
NoJob == 0         \* worker has no recv result
RecvErr == -1      \* recv returned Err(RecvError)

VARIABLES
    size,        \* the argument n of new / build
    mainpc,      \* position of the thread that constructs and drops the pool
    chan,        \* TRUE once mpsc::channel() has been called
    sender,      \* the channel's Sender exists (local of new, then ThreadPool.sender = Some)
    queue,       \* messages buffered in the channel, oldest first
    rxRefs,      \* strong count of the Arc<Mutex<Receiver>>
    guards,      \* set of workers holding a MutexGuard on the receiver
    poisoned,    \* the Mutex is poisoned: a thread panicked while holding a guard
    workers,     \* ThreadPool.workers: Seq of [id, thread] (thread = handle is Some)
    wpc,         \* position of each spawned worker thread
    wjob,        \* the value of `job` in each worker's loop body
    inflight,    \* k -> number of execute calls in progress that began when k jobs had been sent
    callerPanics,\* caller threads that panicked inside execute
    called,      \* number of execute calls begun
    nextJob,     \* number the next successful send gives its job
    dropIdx,     \* index of the Drop loop in workers
    \* ---- observation (history) variables ----
    sentBefore,  \* job -> number of jobs already sent when its execute call began
    started,     \* job -> number of times its body was started
    completed,   \* job -> number of times its body returned
    claimOrder,  \* jobs in the order recv handed them out
    seqno,       \* job -> sequence number its body recorded (0 = none)
    counter,     \* the shared sequence counter the job bodies use
    joinCount,   \* worker id -> number of completed joins
    queuedAtClose, \* the buffer was non-empty at the moment the Sender was dropped
    faulted      \* jobs whose body panicked

vars == <<size, mainpc, chan, sender, queue, rxRefs, guards, poisoned, workers,
          wpc, wjob, inflight, callerPanics, called, nextJob, dropIdx,
          sentBefore, started, completed, claimOrder, seqno, counter,
          joinCount, queuedAtClose, faulted>>

poolVars == <<size, mainpc, chan, sender, workers, dropIdx, joinCount,
              queuedAtClose>>
callerVars == <<inflight, callerPanics, called, nextJob, sentBefore>>
jobHist == <<started, completed, claimOrder, seqno, counter, faulted>>

\* ---- helpers ------------------------------------------------------------
Dead == {"terminated", "panicked"}
Spawned == DOMAIN wpc
Live == {w \in Spawned : wpc[w] \notin Dead}
Executing(w) == wpc[w] = "job"
InFlight == {k \in DOMAIN inflight : inflight[k] > 0}
Sent == 1..(nextJob - 1)

\* <<a, b>>: execute(a) returned before execute(b) was called
before == {p \in Sent \X Sent : p[1] <= sentBefore[p[2]]}

\* assert!(n > 0) in new
NewAccepts(n) == n > 0

\* variant: build lets every n through
BuildAccepts_Any(n) == n >= 0

\* if n > 0 in build
BuildAccepts(n) == n > 0

\* variant: the loop runs over 0..=n
SpawnRange_Extra(n) == 0..n

\* variant: the loop stops one short
SpawnRange_Short(n) == 0..(n - 2)

\* for id in 0..n
SpawnRange(n) == 0..(n - 1)

\* variant: a one-slot buffer that drops what does not fit
SendAppend_Bounded(q, j) == IF Len(q) < 1 THEN Append(q, j) ELSE q

\* variant: send pushes at the front
SendAppend_Front(q, j) == <<j>> \o q

\* Sender::send on a connected channel appends to the buffer
SendAppend(q, j) == Append(q, j)

\* variant: a bounded channel of one slot (sync_channel(1)), send blocks when full
SendReady_Bounded(q) == Len(q) < 1

\* mpsc::channel() is asynchronous with an unbounded buffer: send never blocks
SendReady(q) == TRUE

\* variant: the send goes through another Sender that outlives the pool's
SendOk_IgnoreSender(s, r) == r > 0

\* variant: the Receiver is kept alive outside the workers
SendOk_IgnoreReceiver(s, r) == s

\* sender.as_ref().unwrap() needs Some, send(job).unwrap() needs a Receiver
SendOk(s, r) == s /\ r > 0

\* variant: recv hands out the newest message
RecvJob_Newest(q) == q[Len(q)]

\* Receiver::recv hands out the oldest message ...
RecvJob(q) == Head(q)

\* variant: recv leaves the message in the buffer
RecvRest_Keep(q) == q

\* ... and removes it from the buffer
RecvRest(q) == Tail(q)

\* variant: Err as soon as the Sender is gone, buffered messages or not
RecvDisconnected_IgnoreBuffer(q, s) == ~s

\* variant: Err on an empty buffer, Sender or not (try_recv)
RecvDisconnected_Empty(q, s) == q = <<>>

\* Receiver::recv returns Err only when the buffer is empty and every
\* Sender has been dropped
RecvDisconnected(q, s) == q = <<>> /\ ~s

\* variant: the guard lives on into the match (while let ... = lock().recv())
GuardAfterRecv_Held(g, w) == g

\* the temporary MutexGuard of `receiver.lock().unwrap().recv()` is dropped
\* at the end of the let statement
GuardAfterRecv(g, w) == g \ {w}

\* the job body of the ordering test: the next value of the shared, lock-
\* protected, monotonic sequence counter
NextSeq(c) == c + 1

\* variant: the Sender is not dropped before the joins
RevokedSender_Kept(s) == s

\* drop(self.sender.take()): the field is None and the Sender is dropped
RevokedSender(s) == FALSE

\* variant: the handle is unwrapped whether or not it is there
TakeSome_Always(t) == TRUE

\* if let Some(worker) = worker.thread.take()
TakeSome(t) == t

\* variant: the result of join is discarded
JoinFailed_Ignored(pc) == FALSE

\* join() returns Err for a thread that panicked, and unwrap() panics on it
JoinFailed(pc) == pc = "panicked"

\* variant: join does not wait
JoinReady_NoWait(pc) == TRUE

\* JoinHandle::join returns once the thread has finished
JoinReady(pc) == pc \in Dead

Init ==
    /\ size \in 0..MaxN
    /\ mainpc = "start"
    /\ chan = FALSE
    /\ sender = FALSE
    /\ queue = <<>>
    /\ rxRefs = 0
    /\ guards = {}
    /\ poisoned = FALSE
    /\ workers = <<>>
    /\ wpc = <<>>
    /\ wjob = <<>>
    /\ inflight = [k \in 0..MaxJobs |-> 0]
    /\ callerPanics = 0
    /\ called = 0
    /\ nextJob = 1
    /\ dropIdx = 0
    /\ sentBefore = [j \in Jobs |-> 0]
    /\ started = [j \in Jobs |-> 0]
    /\ completed = [j \in Jobs |-> 0]
    /\ claimOrder = <<>>
    /\ seqno = [j \in Jobs |-> 0]
    /\ counter = 0
    /\ joinCount = <<>>
    /\ queuedAtClose = FALSE
    /\ faulted = {}

\* ---- construction -------------------------------------------------------
\* ThreadPool::build: validates n, then delegates to new
Build ==
    /\ mainpc = "start"
    /\ mainpc' = IF BuildAccepts(size) THEN "new" ELSE "build_err"
    /\ UNCHANGED queuedAtClose
    /\ UNCHANGED <<size, chan, sender, workers, dropIdx, joinCount,
                   queue, rxRefs, guards, poisoned, wpc, wjob>>
    /\ UNCHANGED <<callerVars, jobHist>>

\* ThreadPool::new up to the spawn loop, called directly or from build:
\* assert, mpsc::channel(), Arc::new(Mutex::new(receiver))
New ==
    /\ mainpc \in {"start", "new"}
    /\ IF NewAccepts(size)
       THEN /\ mainpc' = "spawn"
            /\ chan' = TRUE
            /\ sender' = TRUE
            /\ rxRefs' = 1
       ELSE /\ mainpc' = "new_panicked"
            /\ UNCHANGED <<chan, sender, rxRefs>>
    /\ UNCHANGED queuedAtClose
    /\ UNCHANGED <<size, workers, dropIdx, joinCount,
                   queue, guards, poisoned, wpc, wjob>>
    /\ UNCHANGED <<callerVars, jobHist>>

\* one iteration of the spawn loop: Worker::new(id, Arc::clone(&receiver))
Spawn ==
    /\ mainpc = "spawn"
    /\ Len(workers) \in SpawnRange(size)
    /\ LET id == Len(workers) IN
        /\ workers' = Append(workers, [id |-> id, thread |-> TRUE])
        /\ rxRefs' = rxRefs + 1
        /\ wpc' = [w \in Spawned \cup {id} |-> IF w = id THEN "lock" ELSE wpc[w]]
        /\ wjob' = [w \in Spawned \cup {id} |-> IF w = id THEN NoJob ELSE wjob[w]]
        /\ joinCount' = [w \in Spawned \cup {id} |-> IF w = id THEN 0 ELSE joinCount[w]]
    /\ UNCHANGED queuedAtClose
    /\ UNCHANGED <<size, mainpc, chan, sender, dropIdx, queue, guards, poisoned>>
    /\ UNCHANGED <<callerVars, jobHist>>

\* end of new: the pool is returned with sender: Some(sender) and the
\* workers; the local Arc `receiver` goes out of scope
NewReturn ==
    /\ mainpc = "spawn"
    /\ Len(workers) \notin SpawnRange(size)
    /\ mainpc' = "ready"
    /\ rxRefs' = rxRefs - 1
    /\ UNCHANGED queuedAtClose
    /\ UNCHANGED <<size, chan, sender, workers, dropIdx, joinCount,
                   queue, guards, poisoned, wpc, wjob>>
    /\ UNCHANGED <<callerVars, jobHist>>

\* ---- submission ---------------------------------------------------------
\* a caller thread that is not inside execute enters it
\* (let job = Box::new(f)); caller threads are interchangeable
ExecuteCall ==
    /\ mainpc = "ready"
    /\ called - (nextJob - 1) < NumCallers    \* calls in progress + panicked callers
    /\ called < MaxJobs
    /\ called' = called + 1
    /\ inflight' = [inflight EXCEPT ![nextJob - 1] = @ + 1]
    /\ UNCHANGED <<callerPanics, nextJob, sentBefore>>
    /\ UNCHANGED <<poolVars, queue, rxRefs, guards, poisoned, wpc, wjob, jobHist>>

\* self.sender.as_ref().unwrap().send(job).unwrap() in a call that began
\* when k jobs had been sent: send fails, and the unwrap panics, when the
\* Receiver has been dropped; otherwise execute returns
ExecuteSend(k) ==
    /\ inflight[k] > 0
    /\ SendReady(queue)
    /\ inflight' = [inflight EXCEPT ![k] = @ - 1]
    /\ IF SendOk(sender, rxRefs)
       THEN /\ queue' = SendAppend(queue, nextJob)
            /\ sentBefore' = [sentBefore EXCEPT ![nextJob] = k]
            /\ nextJob' = nextJob + 1
            /\ UNCHANGED callerPanics
       ELSE /\ callerPanics' = callerPanics + 1
            /\ UNCHANGED <<queue, nextJob, sentBefore>>
    /\ UNCHANGED called
    /\ UNCHANGED <<poolVars, rxRefs, guards, poisoned, wpc, wjob, jobHist>>

\* ---- worker loop --------------------------------------------------------
\* receiver.lock().unwrap(): blocks until no other guard exists; on a
\* poisoned Mutex lock() returns Err and the unwrap panics
WorkerLock(w) ==
    /\ wpc[w] = "lock"
    /\ guards = {}
    /\ IF poisoned
       THEN /\ wpc' = [wpc EXCEPT ![w] = "panicked"]
            /\ rxRefs' = rxRefs - 1
            /\ UNCHANGED guards
       ELSE /\ guards' = guards \cup {w}
            /\ wpc' = [wpc EXCEPT ![w] = "recv"]
            /\ UNCHANGED rxRefs
    /\ UNCHANGED <<poolVars, callerVars, jobHist, queue, poisoned, wjob>>

\* .recv() returns Ok(job), the oldest buffered message; the statement ends
\* and drops the guard; the match arm Ok(job) calls job()
WorkerRecvOk(w) ==
    /\ wpc[w] = "recv"
    /\ queue # <<>>
    /\ LET j == RecvJob(queue) IN
        /\ wjob' = [wjob EXCEPT ![w] = j]
        /\ claimOrder' = Append(claimOrder, j)
        /\ started' = [started EXCEPT ![j] = @ + 1]
    /\ queue' = RecvRest(queue)
    /\ guards' = GuardAfterRecv(guards, w)
    /\ wpc' = [wpc EXCEPT ![w] = "job"]
    /\ UNCHANGED <<poolVars, callerVars, rxRefs, poisoned>>
    /\ UNCHANGED <<completed, seqno, counter, faulted>>

\* .recv() returns Err: the channel is empty and disconnected; the statement
\* ends and drops the guard; the match arm Err(_) breaks, the closure returns
\* and drops its Arc of the receiver
WorkerRecvErr(w) ==
    /\ wpc[w] = "recv"
    /\ RecvDisconnected(queue, sender)
    /\ wjob' = [wjob EXCEPT ![w] = RecvErr]
    /\ guards' = GuardAfterRecv(guards, w)
    /\ wpc' = [wpc EXCEPT ![w] = "terminated"]
    /\ rxRefs' = rxRefs - 1
    /\ UNCHANGED <<poolVars, callerVars, jobHist, queue, poisoned>>

\* job() runs to its end and the loop goes round; the body's one effect is
\* to record the next value of the shared sequence counter
JobReturn(w) ==
    /\ wpc[w] = "job"
    /\ counter' = NextSeq(counter)
    /\ seqno' = [seqno EXCEPT ![wjob[w]] = NextSeq(counter)]
    /\ completed' = [completed EXCEPT ![wjob[w]] = @ + 1]
    /\ wjob' = [wjob EXCEPT ![w] = NoJob]
    /\ wpc' = [wpc EXCEPT ![w] = "lock"]
    /\ UNCHANGED <<poolVars, callerVars, queue, rxRefs, guards, poisoned>>
    /\ UNCHANGED <<started, claimOrder, faulted>>

\* job() panics: the thread unwinds, dropping the job and its Arc of the
\* receiver; a guard that is dropped during the unwinding poisons the Mutex
JobFault(w) ==
    /\ Executing(w)
    /\ faulted' = faulted \cup {wjob[w]}
    /\ wjob' = [wjob EXCEPT ![w] = NoJob]
    /\ wpc' = [wpc EXCEPT ![w] = "panicked"]
    /\ rxRefs' = rxRefs - 1
    /\ guards' = guards \ {w}
    /\ poisoned' = (poisoned \/ w \in guards)
    /\ UNCHANGED <<poolVars, callerVars, queue>>
    /\ UNCHANGED <<started, completed, claimOrder, seqno, counter>>

\* ---- teardown -----------------------------------------------------------
\* drop(self.sender.take()); Drop needs exclusive access, so no execute
\* call is in progress
DropBegin ==
    /\ mainpc = "ready"
    /\ InFlight = {}
    /\ queuedAtClose' = (queue # <<>>)
    /\ sender' = RevokedSender(sender)
    /\ dropIdx' = 1
    /\ mainpc' = "drop_loop"
    /\ UNCHANGED <<size, chan, workers, joinCount>>
    /\ UNCHANGED <<callerVars, jobHist, queue, rxRefs, guards, poisoned, wpc, wjob>>

\* loop head: if let Some(worker) = worker.thread.take()
DropTake ==
    /\ mainpc = "drop_loop"
    /\ dropIdx <= Len(workers)
    /\ IF TakeSome(workers[dropIdx].thread)
       THEN /\ workers' = [workers EXCEPT ![dropIdx].thread = FALSE]
            /\ mainpc' = "join"
            /\ UNCHANGED dropIdx
       ELSE /\ dropIdx' = dropIdx + 1
            /\ UNCHANGED <<workers, mainpc>>
    /\ UNCHANGED queuedAtClose
    /\ UNCHANGED <<size, chan, sender, joinCount>>
    /\ UNCHANGED <<callerVars, jobHist, queue, rxRefs, guards, poisoned, wpc, wjob>>

\* worker.join().unwrap(): join reports Err for a thread that panicked
DropJoin ==
    /\ mainpc = "join"
    /\ LET id == workers[dropIdx].id IN
        /\ JoinReady(wpc[id])
        /\ joinCount' = [joinCount EXCEPT ![id] = @ + 1]
        /\ IF JoinFailed(wpc[id])
           THEN /\ mainpc' = "drop_panicked"
                /\ UNCHANGED dropIdx
           ELSE /\ mainpc' = "drop_loop"
                /\ dropIdx' = dropIdx + 1
    /\ UNCHANGED queuedAtClose
    /\ UNCHANGED <<size, chan, sender, workers>>
    /\ UNCHANGED <<callerVars, jobHist, queue, rxRefs, guards, poisoned, wpc, wjob>>

\* the loop is exhausted and drop returns
DropReturn ==
    /\ mainpc = "drop_loop"
    /\ dropIdx > Len(workers)
    /\ mainpc' = "done"
    /\ UNCHANGED queuedAtClose
    /\ UNCHANGED <<size, chan, sender, workers, dropIdx, joinCount>>
    /\ UNCHANGED <<callerVars, jobHist, queue, rxRefs, guards, poisoned, wpc, wjob>>

Next ==
    \/ Build
    \/ New
    \/ Spawn
    \/ NewReturn
    \/ ExecuteCall
    \/ \E k \in 0..MaxJobs : ExecuteSend(k)
    \/ \E w \in Spawned : WorkerLock(w)
    \/ \E w \in Spawned : WorkerRecvOk(w)
    \/ \E w \in Spawned : WorkerRecvErr(w)
    \/ \E w \in Spawned : JobReturn(w)
    \/ \E w \in Spawned : JobFault(w)
    \/ DropBegin
    \/ DropTake
    \/ DropJoin
    \/ DropReturn

Spec == Init /\ [][Next]_vars

TypeOK ==
    /\ size \in 0..MaxN
    /\ mainpc \in {"start", "new", "build_err", "new_panicked", "spawn", "ready",
                   "drop_loop", "join", "drop_panicked", "done"}
    /\ chan \in BOOLEAN /\ sender \in BOOLEAN /\ queuedAtClose \in BOOLEAN
    /\ poisoned \in BOOLEAN
    /\ rxRefs \in 0..(MaxN + 1)
    /\ guards \subseteq Spawned
    /\ Len(queue) <= MaxJobs /\ \A i \in DOMAIN queue : queue[i] \in Jobs
    /\ \A w \in Spawned :
        /\ wpc[w] \in {"lock", "recv", "job", "terminated", "panicked"}
        /\ wjob[w] \in Jobs \cup {NoJob, RecvErr}
    /\ called \in 0..MaxJobs /\ nextJob \in 1..(MaxJobs + 1)
    /\ callerPanics \in 0..NumCallers
    /\ dropIdx \in 0..(MaxN + 1)
    /\ faulted \subseteq Jobs

\* ---- observation helpers ------------------------------------------------
Occurrences(sq, j) == Cardinality({i \in DOMAIN sq : sq[i] = j})

RECURSIVE SumOver(_, _)
SumOver(f, S) == IF S = {} THEN 0
                 ELSE LET x == CHOOSE y \in S : TRUE IN f[x] + SumOver(f, S \ {x})

Called == 1..called

\* a is handed out by recv before b is
ClaimedBefore(a, b) ==
    \E i \in DOMAIN claimOrder :
        /\ claimOrder[i] = a
        /\ \A k \in 1..i : claimOrder[k] # b

\* ---- claims -------------------------------------------------------------

\* C1: at-most-once delivery. In every reachable state no job has been
\* handed out by recv more than once, no two workers hold the same job, and
\* no job body has been started more than once.
AtMostOnceDelivery ==
    \A j \in Jobs :
        /\ Occurrences(claimOrder, j) <= 1
        /\ Cardinality({w \in Spawned : wjob[w] = j}) <= 1
        /\ started[j] <= 1

\* C1 witness: two workers of one pool have each claimed and started a
\* different job.
AtMostOnceDelivery_Witness ==
    \E a, b \in Jobs : \E v, w \in Spawned :
        /\ a # b /\ v # w
        /\ wjob[v] = a /\ wjob[w] = b
        /\ started[a] = 1 /\ started[b] = 1

\* C2: teardown drains. When drop has returned, every job whose execute
\* call returned has run to completion, the buffer is empty, and the number
\* of completions equals the number of submitted jobs.
TeardownDrains ==
    mainpc = "done" =>
        /\ \A j \in Sent : completed[j] >= 1
        /\ queue = <<>>
        /\ SumOver(completed, Jobs) = Cardinality(Sent)

\* C2 witness: drop has returned, every execute call was made, and jobs
\* were still buffered when the Sender was dropped.
TeardownDrains_Witness ==
    /\ mainpc = "done"
    /\ queuedAtClose
    /\ Sent = Jobs

\* C3: exactly-once execution. After teardown every job passed to execute
\* has been claimed once, started once and completed once, no worker still
\* holds a job,
\* also when the jobs were submitted concurrently and outnumber the workers.
ExactlyOnceAfterTeardown ==
    mainpc = "done" =>
        /\ Sent = Called
        /\ Len(claimOrder) = Cardinality(Called)
        /\ \A j \in Called :
            /\ Occurrences(claimOrder, j) = 1
            /\ started[j] = 1
            /\ completed[j] = 1
        /\ \A j \in Jobs \ Called : started[j] = 0 /\ completed[j] = 0
        /\ \A w \in Spawned : wjob[w] \notin Jobs

\* C3 witness: more jobs than workers, at least two workers, and two
\* execute calls that overlapped (the later job's call began before the
\* earlier job's send); teardown has returned.
ExactlyOnceAfterTeardown_Witness ==
    /\ mainpc = "done"
    /\ size >= 2
    /\ Called = Jobs
    /\ MaxJobs > size
    /\ \E b \in Jobs : b > 1 /\ sentBefore[b] < b - 1

\* C4: FIFO claim order. If execute(a) returned before execute(b) was
\* called, then b is never handed out by recv unless a was handed out
\* earlier.
FifoClaimOrder ==
    \A p \in before :
        Occurrences(claimOrder, p[2]) > 0 => ClaimedBefore(p[1], p[2])

\* C4 witness: a was submitted strictly before b and claimed before b, yet
\* b has completed while a has not.
FifoClaimOrder_Witness ==
    \E p \in before :
        /\ ClaimedBefore(p[1], p[2])
        /\ completed[p[2]] = 1
        /\ completed[p[1]] = 0
        /\ p[1] \notin faulted

\* of two jobs that both recorded a sequence number, the one claimed first
\* recorded the lower one
SeqnoOrdered(a, b) ==
    (seqno[a] # 0 /\ seqno[b] # 0) =>
        /\ ClaimedBefore(a, b) => seqno[a] < seqno[b]
        /\ ClaimedBefore(b, a) => seqno[b] < seqno[a]

\* C5 as stated: for every pool size, if a was submitted strictly before b,
\* the job claimed first recorded the lower sequence number.
SeqnoFollowsClaimOrder ==
    \A p \in before : SeqnoOrdered(p[1], p[2])

\* C5 amended: with a pool of size 1, if a was submitted strictly before b,
\* the job claimed first recorded the lower sequence number.
SeqnoFollowsClaimOrderSingleWorker ==
    size = 1 => \A p \in before : SeqnoOrdered(p[1], p[2])

\* C5 witness: a pool of one worker has run two jobs submitted one strictly
\* after the other, and both recorded their sequence numbers.
SeqnoFollowsClaimOrderSingleWorker_Witness ==
    /\ size = 1
    /\ \E p \in before :
        /\ seqno[p[1]] # 0 /\ seqno[p[2]] # 0
        /\ ClaimedBefore(p[1], p[2])

\* C6: the receiver lock is held by at most one worker, only by a worker
\* between lock() and the end of the let statement, and never by a worker
\* that is executing a job.
LockNotHeldWhileExecuting ==
    /\ Cardinality(guards) <= 1
    /\ \A w \in Spawned :
        /\ Executing(w) => w \notin guards
        /\ w \in guards => wpc[w] = "recv"

\* C6 witness: two workers are executing jobs at once, the second having
\* claimed its job while the first was already executing, and the lock is
\* free.
LockNotHeldWhileExecuting_Witness ==
    \E v, w \in Spawned :
        /\ v # w
        /\ Executing(v)
        /\ Executing(w)
        /\ ClaimedBefore(wjob[v], wjob[w])
        /\ guards = {}

\* C7: teardown is synchronous. When drop has returned, every one of the n
\* worker threads has terminated, every handle has been taken, and every
\* worker has been joined exactly once.
TeardownSynchronous ==
    mainpc = "done" =>
        /\ Len(workers) = size
        /\ Live = {}
        /\ \A i \in 1..Len(workers) :
            /\ wpc[workers[i].id] \in Dead
            /\ ~workers[i].thread
            /\ joinCount[workers[i].id] = 1

\* C7 witness: drop has returned for a pool of two or more workers that ran
\* at least one job.
TeardownSynchronous_Witness ==
    /\ mainpc = "done"
    /\ size >= 2
    /\ \E j \in Jobs : completed[j] = 1

\* C8: once construction has returned and until teardown begins, the pool
\* owns exactly n workers with ids 0..n-1 in order, each with its handle,
\* the channel exists with its Sender, and the receiver is shared by exactly
\* the live workers; as long as the Sender exists and no job has faulted,
\* every spawned worker is alive.
ConstructionYieldsWorkers ==
    /\ mainpc = "ready" =>
        /\ size > 0
        /\ Len(workers) = size
        /\ Spawned = 0..(size - 1)
        /\ \A i \in 1..Len(workers) : workers[i].id = i - 1 /\ workers[i].thread
        /\ chan /\ sender
        /\ rxRefs = Cardinality(Live)
    /\ (sender /\ faulted = {}) => Live = Spawned

\* C8 witness: a pool of two or more workers, constructed, all workers
\* alive after one of them has completed a job.
ConstructionYieldsWorkers_Witness ==
    /\ mainpc = "ready"
    /\ size >= 2
    /\ Cardinality(Live) = size
    /\ \E j \in Jobs : completed[j] = 1

\* C9: n = 0 is rejected by both constructors and nothing is created:
\* build(0) ends in the error value, new(0) panics, neither creates a
\* channel or a worker; build hands only n > 0 on to new, so the two fail
\* on exactly the same input, n = 0.
ZeroSizeRejected ==
    /\ mainpc \in {"build_err", "new_panicked"} =>
        /\ size = 0
        /\ ~chan /\ ~sender /\ rxRefs = 0
        /\ workers = <<>> /\ Spawned = {}
    /\ mainpc = "new" => size > 0
    /\ size = 0 => mainpc \in {"start", "build_err", "new_panicked"}

\* C9 witness: build(0) has returned the error value.
ZeroSizeRejected_Witness ==
    /\ mainpc = "build_err"
    /\ size = 0

\* C10: a worker whose recv returned Err, or that has left its loop through
\* break, exists only when the Sender is gone and the buffer is empty; every
\* job whose execute returned has by then been claimed.
TerminateOnlyClosedAndEmpty ==
    \A w \in Spawned :
        (wjob[w] = RecvErr \/ wpc[w] = "terminated") =>
            /\ ~sender
            /\ queue = <<>>
            /\ \A j \in Sent : Occurrences(claimOrder, j) > 0

\* C10 witness: one worker has terminated while another is still executing
\* a job that was buffered when the Sender was dropped.
TerminateOnlyClosedAndEmpty_Witness ==
    \E v, w \in Spawned :
        /\ wpc[v] = "terminated"
        /\ Executing(w)
        /\ queuedAtClose

Panicked == {w \in Spawned : wpc[w] = "panicked"}

\* C11: a job fault is confined to the worker running it. The step in which
\* a job body panics takes exactly that one executing worker to its end and
\* changes no other worker, the lock or the buffer; the Mutex is never
\* poisoned; a worker that panicked never runs again; and there is one dead
\* worker per faulted job.
FaultConfined ==
    [][/\ \A w \in Spawned : wpc[w] = "panicked" => wpc'[w] = "panicked"
       /\ faulted' # faulted =>
            /\ Cardinality(faulted') = Cardinality(faulted) + 1
            /\ Cardinality(Live') = Cardinality(Live) - 1
            /\ \E w \in Spawned :
                /\ Executing(w) /\ wpc'[w] = "panicked"
                /\ \A v \in Spawned \ {w} : wpc'[v] = wpc[v] /\ wjob'[v] = wjob[v]
            /\ guards' = guards
            /\ queue' = queue
       /\ ~poisoned'
       /\ Cardinality(Panicked') = Cardinality(faulted')]_vars

\* C11 witness: one worker has died of a job fault, the Mutex is not
\* poisoned, and another worker holds the lock with a job to claim.
FaultConfined_Witness ==
    \E v, w \in Spawned :
        /\ wpc[v] = "panicked"
        /\ wpc[w] = "recv" /\ w \in guards
        /\ queue # <<>>
        /\ ~poisoned

InQueue(j) == \E i \in DOMAIN queue : queue[i] = j

\* C12: submit does not wait for a worker. Whatever the workers are doing
\* and however many jobs are buffered, a call that has entered execute can
\* take its send step; a job whose execute returned is in the buffer or has
\* been claimed, and a job in the buffer has not been claimed, started or
\* finished.
NonBlockingSubmit ==
    /\ \A k \in 0..MaxJobs : inflight[k] > 0 => ENABLED ExecuteSend(k)
    /\ \A j \in Sent : InQueue(j) \/ Occurrences(claimOrder, j) > 0
    /\ \A j \in Jobs : InQueue(j) =>
        /\ Occurrences(claimOrder, j) = 0
        /\ started[j] = 0
        /\ completed[j] = 0

\* C12 witness: every worker of the pool is executing a job, a job waits in
\* the buffer, and a further execute call is about to send.
NonBlockingSubmit_Witness ==
    /\ mainpc = "ready"
    /\ \A w \in Spawned : Executing(w)
    /\ queue # <<>>
    /\ InFlight # {}

\* ---- a second run of the teardown logic ---------------------------------
\* Drop::drop entered again on a pool that has been torn down:
\* self.sender.take() finds None and drop(None) does nothing
DropAgain ==
    /\ mainpc = "done"
    /\ sender' = RevokedSender(sender)
    /\ dropIdx' = 1
    /\ mainpc' = "drop_loop"
    /\ UNCHANGED queuedAtClose
    /\ UNCHANGED <<size, chan, workers, joinCount>>
    /\ UNCHANGED <<callerVars, jobHist, queue, rxRefs, guards, poisoned, wpc, wjob>>

NextRedrop ==
    \/ Next
    \/ DropAgain

SpecRedrop == Init /\ [][NextRedrop]_vars

\* the pool after a teardown that returned: Sender gone, every handle taken,
\* every worker joined once
TornDown ==
    /\ chan /\ ~sender
    /\ Len(workers) = size
    /\ \A i \in 1..Len(workers) :
        ~workers[i].thread /\ joinCount[workers[i].id] = 1

\* C13: teardown is idempotent. On a torn-down pool every step of the
\* teardown logic leaves the channel, the workers, the handles and the join
\* counts as they are, never waits in a join and never panics; it only moves
\* the caller through the loop.
TeardownIdempotent ==
    [][TornDown =>
        /\ UNCHANGED <<size, chan, sender, queue, rxRefs, guards, poisoned,
                       workers, wpc, wjob, joinCount, queuedAtClose>>
        /\ UNCHANGED <<callerVars, jobHist>>
        /\ mainpc' \in {"drop_loop", "done"}]_vars

\* C13 witness: the loop of a second teardown run is in the middle of the
\* workers, all of whose handles are already gone.
TeardownIdempotent_Witness ==
    /\ TornDown
    /\ mainpc = "drop_loop"
    /\ dropIdx >= 2
    /\ dropIdx <= Len(workers)

\* ---- execute on a pool whose teardown has begun -------------------------
\* a caller enters execute although the Sender has been revoked (the usage
\* violation of overlapping submission with teardown)
ExecuteCallLate ==
    /\ mainpc \in {"drop_loop", "join", "done", "drop_panicked"}
    /\ called - (nextJob - 1) < NumCallers
    /\ called < MaxJobs
    /\ called' = called + 1
    /\ inflight' = [inflight EXCEPT ![nextJob - 1] = @ + 1]
    /\ UNCHANGED <<callerPanics, nextJob, sentBefore>>
    /\ UNCHANGED <<poolVars, queue, rxRefs, guards, poisoned, wpc, wjob, jobHist>>

NextLate ==
    \/ Next
    \/ ExecuteCallLate

SpecLate == Init /\ [][NextLate]_vars

\* some call in progress takes its send step
SendStep == \E k \in 0..MaxJobs : inflight'[k] = inflight[k] - 1

\* C14: execute after the Sender has been revoked is fatal to the caller.
\* The send step of such a call panics the caller, leaves the buffer as it
\* is and gives the job no place in it, so that no job other than the ones
\* sent before is ever claimed or started.
LateExecutePanics ==
    [][/\ (chan /\ ~sender /\ SendStep) =>
            /\ callerPanics' = callerPanics + 1
            /\ queue' = queue
            /\ nextJob' = nextJob
            /\ UNCHANGED <<started, completed, claimOrder>>
       /\ \A j \in Jobs :
            (started'[j] > 0 \/ Occurrences(claimOrder', j) > 0) => j < nextJob']_vars

\* C14 witness: a caller has panicked in execute after the Sender was
\* revoked, while a worker, and with it the Receiver, was still alive.
LateExecutePanics_Witness ==
    /\ chan /\ ~sender
    /\ callerPanics >= 1
    /\ Live # {}
    /\ called > nextJob - 1

InTeardown == mainpc \in {"drop_loop", "join", "done", "drop_panicked"}

\* C15: teardown is two-phase and ordered. The Sender is revoked before any
\* handle is taken or joined; the workers are visited in ascending id order;
\* the handle of a worker is taken only after the join of every worker with
\* a smaller id has returned, and while one join is waiting no later worker
\* has been touched.
TeardownTwoPhaseOrdered ==
    /\ InTeardown => ~sender
    /\ \A i \in 1..Len(workers) :
        /\ workers[i].id = i - 1
        /\ joinCount[workers[i].id] >= 1 => ~workers[i].thread
        /\ ~workers[i].thread =>
            /\ InTeardown /\ ~sender
            /\ i <= dropIdx
            /\ \A k \in 1..(i - 1) : joinCount[workers[k].id] = 1
        /\ (InTeardown /\ i > dropIdx) =>
            workers[i].thread /\ joinCount[workers[i].id] = 0
    /\ mainpc = "join" => joinCount[workers[dropIdx].id] = 0

\* C15 witness: worker 0 has been joined and the join of worker 1 is
\* waiting for it to finish the job it is executing.
TeardownTwoPhaseOrdered_Witness ==
    /\ mainpc = "join"
    /\ dropIdx = 2
    /\ joinCount[0] = 1
    /\ Executing(1)

\* the worker states of the design: Idle is waiting for the lock or in recv
WState(pc) ==
    CASE pc \in {"lock", "recv"} -> "Idle"
      [] pc = "job" -> "Executing"
      [] pc = "terminated" -> "Terminated"
      [] OTHER -> "Faulted"

\* a step of the thread that runs drop
DropStep ==
    /\ mainpc \in {"ready", "drop_loop", "join"}
    /\ mainpc' \in {"drop_loop", "join", "done", "drop_panicked"}
    /\ (mainpc' # mainpc \/ dropIdx' # dropIdx)

\* what a step may do to worker w, given the transitions it may take
WorkerStepWithin(w, allowed) ==
    LET from == WState(wpc[w])
        to == WState(wpc'[w])
    IN  /\ from # to => <<from, to>> \in allowed
        /\ (from = "Executing" /\ to = "Idle") =>
                completed'[wjob[w]] = completed[wjob[w]] + 1
        /\ (from = "Executing" /\ to = "Faulted") => wjob[w] \in faulted'
        /\ (from = "Idle" /\ to = "Terminated") => ~sender /\ queue = <<>>

\* teardown takes nothing away: its steps change no worker, no claimed job
\* and no buffered job
TeardownTouchesNoJob ==
    DropStep => UNCHANGED <<wpc, wjob, queue, started, completed, faulted>>

\* C16 as stated: the only transitions of a worker are Idle -> Executing,
\* Executing -> Idle (the body returned) and Idle -> Terminated (Closed and
\* Empty), and teardown interrupts or removes no claimed or queued job.
ClaimedJobRunsToCompletion ==
    [][/\ \A w \in Spawned :
            WorkerStepWithin(w, {<<"Idle", "Executing">>,
                                 <<"Executing", "Idle">>,
                                 <<"Idle", "Terminated">>})
       /\ TeardownTouchesNoJob]_vars

\* C16 amended: the only transitions of a worker are Idle -> Executing,
\* Executing -> Idle (the body returned), Idle -> Terminated (Closed and
\* Empty) and Executing -> dead when the body of its own job panics; and
\* teardown interrupts or removes no claimed or queued job.
ClaimedJobRunsUntilReturnOrPanic ==
    [][/\ \A w \in Spawned :
            WorkerStepWithin(w, {<<"Idle", "Executing">>,
                                 <<"Executing", "Idle">>,
                                 <<"Idle", "Terminated">>,
                                 <<"Executing", "Faulted">>})
       /\ TeardownTouchesNoJob]_vars

\* C16 witness: the buffer was empty when the Sender was revoked, and the
\* join of a worker is waiting while that worker still executes the job it
\* had claimed before.
ClaimedJobRunsUntilReturnOrPanic_Witness ==
    /\ mainpc = "join"
    /\ ~queuedAtClose
    /\ Executing(workers[dropIdx].id)

\* C19: teardown after a job fault.  drop never returns normally while a
\* worker has died of a job fault; when it faults it does so at the join of
\* a worker that panicked, every worker before it in the list has been
\* joined once and had terminated, and every worker after it still has its
\* handle and was never joined.
TeardownFaultsAtPanickedWorker ==
    /\ mainpc = "done" => Panicked = {}
    /\ (InTeardown /\ mainpc # "drop_panicked") =>
            \A i \in 1..Len(workers) :
                i < dropIdx => wpc[workers[i].id] = "terminated"
    /\ mainpc = "drop_panicked" =>
            /\ dropIdx \in 1..Len(workers)
            /\ wpc[workers[dropIdx].id] = "panicked"
            /\ ~workers[dropIdx].thread
            /\ joinCount[workers[dropIdx].id] = 1
            /\ \A i \in 1..Len(workers) :
                /\ i < dropIdx =>
                        /\ joinCount[workers[i].id] = 1
                        /\ wpc[workers[i].id] = "terminated"
                        /\ workers[i].id < workers[dropIdx].id
                /\ i > dropIdx =>
                        /\ joinCount[workers[i].id] = 0
                        /\ workers[i].thread
                        /\ workers[i].id > workers[dropIdx].id

\* C19 witness: drop has faulted at the first worker of a pool of two and
\* the second worker is left unjoined.
TeardownFaultsAtPanickedWorker_Witness ==
    /\ mainpc = "drop_panicked"
    /\ dropIdx < Len(workers)
    /\ faulted # {}

\* every worker of the pool has died of a job fault and the pool still has
\* its Sender
AllDead ==
    /\ mainpc = "ready"
    /\ sender
    /\ Spawned = 0..(size - 1)
    /\ Panicked = Spawned

\* C20: once all n workers have died of job faults while the Sender is still
\* present, the Receiver is gone: no job still buffered is ever claimed,
\* started or completed, whatever happens later, and the send of every
\* execute call panics its caller and enqueues nothing.
AllDeadRejectsExecute ==
    [][/\ AllDead' => rxRefs' = 0
       /\ (chan /\ Panicked = Spawned /\ Spawned = 0..(size - 1)) =>
            /\ UNCHANGED <<queue, started, completed, claimOrder, nextJob>>
            /\ Panicked' = Panicked
       /\ (AllDead /\ SendStep) => callerPanics' = callerPanics + 1
       /\ AllDead => (AllDead' \/ mainpc' = "drop_loop")]_vars

\* C20 witness: all workers are dead, a job is left in the buffer and an
\* execute call has panicked.
AllDeadRejectsExecute_Witness ==
    /\ AllDead
    /\ queue # <<>>
    /\ callerPanics >= 1
    /\ \A j \in Jobs : InQueue(j) => started[j] = 0

\* ---------------------------------------------------------------------
\* Scheduling.  Every spawned worker thread and the thread that runs drop
\* are OS threads: one that can take its next step is eventually given the
\* processor.  Nothing obliges a caller to call execute or to drop the pool,
\* and nothing obliges a job body to panic, so those steps carry no
\* fairness.  The Mutex is not fair, so the fairness is weak: a worker is
\* only promised the lock if the lock stays free.

\* the next step of worker thread w when the body of its job returns
WorkerRun(w) ==
    /\ w \in Spawned
    /\ \/ WorkerLock(w)
       \/ WorkerRecvOk(w)
       \/ WorkerRecvErr(w)
       \/ JobReturn(w)

\* the next step of drop once it has begun
DropRun ==
    \/ DropTake
    \/ DropJoin
    \/ DropReturn

FairSpec ==
    /\ Init
    /\ [][Next]_vars
    /\ \A w \in 0..(MaxN - 1) : WF_vars(WorkerRun(w))
    /\ WF_vars(DropRun)

\* C17: teardown terminates.  Under fair scheduling of the threads, a drop
\* that has begun returns unless a job body has faulted, whatever the pool
\* size and the number of jobs buffered; while it has not returned, some
\* worker that is alive or the drop itself can take a step, and when it has
\* returned every worker has observed Closed-and-Empty and exited.
TeardownTerminates ==
    /\ [](InTeardown /\ faulted = {} =>
            /\ mainpc # "drop_panicked"
            /\ mainpc # "done" =>
                    ENABLED (DropRun \/ \E w \in Spawned : WorkerRun(w))
            /\ mainpc = "done" =>
                    \A w \in Spawned :
                        wpc[w] = "terminated" /\ wjob[w] = RecvErr)
    /\ InTeardown ~> (mainpc = "done" \/ faulted # {})

\* C17 witness: drop has returned for a pool of at least two workers that
\* found jobs in the buffer when the Sender was revoked; no body faulted.
TeardownTerminates_Witness ==
    /\ mainpc = "done"
    /\ size >= 2
    /\ queuedAtClose
    /\ faulted = {}
    /\ \A w \in 0..(size - 1) : w \in Spawned /\ wjob[w] = RecvErr

\* the workers inside receiver.lock().unwrap().recv()
AtRecv == {w \in Spawned : wpc[w] = "recv"}

\* every job sent so far has been run to completion
AllSentCompleted == \A j \in Sent : completed[j] >= 1

====
